---- MODULE Spec2Model ----
(***************************************************************************)
(* The fotmob scraping pipeline of football_graph/management/commands/     *)
(* scrape_data.py: Command.handle runs the sequential league stage         *)
(* (get_squad_links), then the team pool (get_player_links_multithreaded), *)
(* then the player pool (get_player_data_multithreaded), all writing to    *)
(* the Django store of football_graph/models.py.                           *)
(*                                                                         *)
(* An optional value (Python None) is the empty sequence, a present value  *)
(* v is <<v>>.  The web site is the environment: what a page shows is      *)
(* drawn from small fixed sets, and whether a navigation, a wait or a      *)
(* browser start fails is chosen nondeterministically.                     *)
(***************************************************************************)
EXTENDS Integers, Sequences, FiniteSets, TLC

\* ------------------------------------------------------------ bounds
\* Largest --max-workers value tried (the smallest is -1).
MaxWorkers == 2
\* Number of times the command is run against the same store.
MaxRuns == 2
\* Longest text, in characters, handed to the two value parsers.
MaxLen == 3
\* Most Player rows in a store handed to apply_filters.
MaxPlayers == 2

\* ------------------------------------------------------------ values
None == <<>>
Some(v) == <<v>>
Range(s) == {s[i] : i \in DOMAIN s}

RECURSIVE SumSeq(_)
SumSeq(s) == IF s = <<>> THEN 0 ELSE Head(s) + SumSeq(Tail(s))

\* A text token as str.split() yields it: a run of digits (isdigit() holds,
\* int() gives n) or any other word.
Num(n) == [isdigit |-> TRUE, n |-> n, s |-> ""]
Word(w) == [isdigit |-> FALSE, n |-> 0, s |-> w]

\* ------------------------------------------------------------ the site
\* handle(): the league overview pages, in order.
urls == <<53, 47>>

\* What a league overview page shows when it renders: the league title and
\* the anchors of its TableContainer.  An anchor is its href (a team page, or
\* something else) and the text of its TeamName element, as its words (None:
\* no such element).  "Nantes" is a team of both leagues.
LeaguePageOf(url) ==
  IF url = 53
  THEN [title |-> "Ligue 1",
        links |-> << [kind |-> "teams", team |-> 1, page |-> "overview", name |-> Some(<<"Nantes">>)],
                     [kind |-> "news", team |-> 0, page |-> "overview", name |-> None],
                     [kind |-> "teams", team |-> 2, page |-> "overview", name |-> Some(<<"Lyon">>)] >>]
  ELSE [title |-> "Premier League",
        links |-> << [kind |-> "teams", team |-> 3, page |-> "overview", name |-> Some(<<"Nantes">>)],
                     [kind |-> "teams", team |-> 4, page |-> "overview", name |-> None] >>]

\* href.startswith("https://www.fotmob.com/teams/")
IsTeamHref(a) == a.kind = "teams"
\* href.replace("overview", "squad")
SquadLink(a) == [kind |-> a.kind, team |-> a.team, page |-> "squad"]

\* A player link https://www.fotmob.com/players/<id>/<slug>.
PLink(id, slug) == [kind |-> "players", id |-> id, slug |-> slug]

\* The elements with class SquadPlayerLink on a team's squad page.  Player 1
\* is listed by two teams; team 3 shows one element that is no player link,
\* team 4 shows none at all.
SquadPageOf(team) ==
  CASE team = 1 -> << PLink(1, 11), [kind |-> "other", id |-> 0, slug |-> 0], PLink(2, 21) >>
    [] team = 2 -> << PLink(1, 11) >>
    [] team = 3 -> << [kind |-> "other", id |-> 0, slug |-> 0] >>
    [] OTHER    -> << >>

\* href.startswith("https://www.fotmob.com/players/")
IsPlayerHref(a) == a.kind = "players"
\* ------------------------------------------------------------ parsing
\* A text is the sequence of its characters.
Digits == <<"0", "1", "2", "3", "4", "5", "6", "7", "8", "9">>
IsDigitChar(c) == c \in Range(Digits)
DigitVal(c) == (CHOOSE i \in DOMAIN Digits : Digits[i] = c) - 1
AllDigits(s) == s # <<>> /\ \A i \in DOMAIN s : IsDigitChar(s[i])

RECURSIVE ToNat(_)
ToNat(s) == IF s = <<>> THEN 0 ELSE 10 * ToNat(SubSeq(s, 1, Len(s) - 1)) + DigitVal(s[Len(s)])

RECURSIVE Pow10(_)
Pow10(n) == IF n = 0 THEN 1 ELSE 10 * Pow10(n - 1)

EndsWith(s, c) == s # <<>> /\ s[Len(s)] = c
DropLast(s) == SubSeq(s, 1, Len(s) - 1)
ReplaceChar(s, a, b) == [i \in DOMAIN s |-> IF s[i] = a THEN b ELSE s[i]]
CountChar(s, c) == Cardinality({i \in DOMAIN s : s[i] = c})
IndexOf(s, c) == CHOOSE i \in DOMAIN s : s[i] = c /\ \A j \in 1..(i - 1) : s[j] # c

\* A parsed number: an int n, or the float mant / 10^scale, in lowest terms.
IntVal(neg, n) == [kind |-> "int", neg |-> neg, mant |-> n, scale |-> 0]
RECURSIVE FloatVal(_, _, _)
FloatVal(neg, mant, scale) ==
  IF scale > 0 /\ mant % 10 = 0 THEN FloatVal(neg, mant \div 10, scale - 1)
  ELSE [kind |-> "float", neg |-> neg, mant |-> mant, scale |-> scale]

Unsigned(s) == IF s # <<>> /\ s[1] = "-" THEN Tail(s) ELSE s
IsNeg(s) == s # <<>> /\ s[1] = "-"

\* str.strip(): blanks at both ends go.
RECURSIVE Strip(_)
Strip(s) ==
  IF s # <<>> /\ s[1] = " " THEN Strip(Tail(s))
  ELSE IF s # <<>> /\ s[Len(s)] = " " THEN Strip(DropLast(s))
  ELSE s

\* int(value): blanks around an optional sign and digits; None stands for
\* ValueError.
PyInt(s) ==
  LET t == Strip(s) IN
  IF AllDigits(Unsigned(t)) THEN Some(IntVal(IsNeg(t), ToNat(Unsigned(t)))) ELSE None

\* float(value) of a text that holds a '.': blanks around an optional sign and
\* digits around exactly one point, at least one digit; None stands for
\* ValueError.
PyFloat(v) ==
  LET s == Strip(v)
      u == Unsigned(s) IN
  IF CountChar(u, ".") # 1 THEN None
  ELSE LET p == IndexOf(u, ".")
           ip == SubSeq(u, 1, p - 1)
           fp == SubSeq(u, p + 1, Len(u))
       IN IF (ip = <<>> \/ AllDigits(ip)) /\ (fp = <<>> \/ AllDigits(fp)) /\ ip \o fp # <<>>
          THEN Some(FloatVal(IsNeg(s), ToNat(ip \o fp), Len(fp)))
          ELSE None

\* parse_stat_value: None for what neither int() nor float() accepts.
parse_stat_value_keep_percent(value) ==
  LET v2 == ReplaceChar(value, ",", ".")
  IN IF "." \in Range(v2) THEN PyFloat(v2) ELSE PyInt(v2)
parse_stat_value(value) ==
  LET v1 == IF EndsWith(value, "%") THEN DropLast(value) ELSE value
      v2 == ReplaceChar(v1, ",", ".")
  IN IF "." \in Range(v2) THEN PyFloat(v2) ELSE PyInt(v2)

\* float(value) of any text: as PyFloat, the point optional.
PyFloatAny(s) == IF "." \in Range(s) THEN PyFloat(s) ELSE PyInt(s)

\* str.upper(), on the characters the pages use.
UpperChar(c) == IF c = "m" THEN "M" ELSE IF c = "k" THEN "K" ELSE c
Upper(s) == [i \in DOMAIN s |-> UpperChar(s[i])]
RemoveChar(s, c) == SelectSeq(s, LAMBDA x : x # c)

\* int(float(text) * factor): the float's value times the factor, truncated
\* toward zero.  The arithmetic here is exact; the code's doubles give the
\* same integer for every number of up to four characters (longer fractions
\* can come out one lower).
ScaledInt(x, factor) ==
  LET q == (x.mant * factor) \div Pow10(x.scale) IN IF x.neg THEN 0 - q ELSE q

\* parse_market_value; "EUR" is the euro sign.  exc: the ValueError of float()
\* leaves the function, which catches only the one of int().
parse_market_value(value) ==
  LET v == Upper(Strip(RemoveChar(value, "EUR")))
      num == PyFloatAny(DropLast(v))
  IN IF EndsWith(v, "M")
     THEN IF num = None THEN [exc |-> TRUE, val |-> None]
          ELSE [exc |-> FALSE, val |-> Some(ScaledInt(num[1], 1000000))]
     ELSE IF EndsWith(v, "K")
     THEN IF num = None THEN [exc |-> TRUE, val |-> None]
          ELSE [exc |-> FALSE, val |-> Some(ScaledInt(num[1], 1000))]
     ELSE IF PyInt(v) = None THEN [exc |-> FALSE, val |-> None]
          ELSE [exc |-> FALSE, val |-> Some(ScaledInt(PyInt(v)[1], 1))]

\* data_match_dict of scrape_player_with_driver: <<field key, page label>>, in
\* the order of the source.
data_match_dict == <<
  <<"goals", "Goals">>,
  <<"expected_goals", "Expected goals (xG)">>,
  <<"xg_on_target", "xG on target (xGOT)">>,
  <<"penalty_goals", "Penalty goals">>,
  <<"non_penalty_xg", "Non-penalty xG">>,
  <<"shots", "Shots">>,
  <<"shots_on_target", "Shots on target">>,
  <<"assists", "Assists">>,
  <<"expected_assists", "Expected assists (xA)">>,
  <<"successful_passes", "Successful passes">>,
  <<"pass_accuracy", "Pass accuracy">>,
  <<"accurate_long_balls", "Accurate long balls">>,
  <<"long_ball_accuracy", "Long ball accuracy">>,
  <<"chances_created", "Chances created">>,
  <<"successful_crosses", "Successful crosses">>,
  <<"cross_accuracy", "Cross accuracy">>,
  <<"successful_dribbles", "Successful dribbles">>,
  <<"dribble_success", "Dribble success">>,
  <<"touches", "Touches">>,
  <<"touches_in_opposition_box", "Touches in opposition box">>,
  <<"dispossessed", "Dispossessed">>,
  <<"fouls_won", "Fouls won">>,
  <<"penalties_awarded", "Penalties awarded">>,
  <<"tackles_won", "Tackles won">>,
  <<"tackles_won_percentage", "Tackles won %">>,
  <<"duels_won", "Duels won">>,
  <<"duels_won_percentage", "Duels won %">>,
  <<"aerial_duels_won", "Aerial duels won">>,
  <<"aerial_duels_won_percentage", "Aerial duels won %">>,
  <<"interceptions", "Interceptions">>,
  <<"blocked", "Blocked">>,
  <<"fouls_committed", "Fouls committed">>,
  <<"recoveries", "Recoveries">>,
  <<"possession_won_final_3rd", "Possession won final 3rd">>,
  <<"dribbled_past", "Dribbled past">>,
  <<"yellow_cards", "Yellow cards">>,
  <<"red_cards", "Red cards">>,
  <<"saves", "Saves">>,
  <<"save_percentage", "Save percentage">>,
  <<"goals_conceded", "Goals conceded">>,
  <<"goals_prevented", "Goals prevented">>,
  <<"clean_sheets", "Clean sheets">>,
  <<"error_led_to_goal", "Error led to goal">>,
  <<"high_claim", "High claim">>,
  <<"gk_pass_accuracy", "Pass accuracy">>,
  <<"gk_accurate_long_balls", "Accurate long balls">>,
  <<"gk_long_ball_accuracy", "Long ball accuracy">> >>

\* The statistics fields of a Data row (models.Data), one per dictionary key.
DataKeys == {data_match_dict[i][1] : i \in DOMAIN data_match_dict}
\* The keys the dictionary gives a label.
KeysOf(label) == {data_match_dict[i][1] : i \in {j \in DOMAIN data_match_dict : data_match_dict[j][2] = label}}

\* The loop over stat_items: every key whose label is the item's title gets
\* the item's parsed value, a later item overwriting an earlier one.
RECURSIVE StatsData(_)
StatsData(items) ==
  IF items = <<>> THEN <<>>
  ELSE LET before == StatsData(DropLast(items))
           item == items[Len(items)]
           hit == KeysOf(item.title)
       IN [k \in (DOMAIN before) \cup hit |->
             IF k \in hit THEN parse_stat_value(item.value) ELSE before[k]]

\* ------------------------------------------------------------ player pages
\* One PlayerBioStatCSS element: its title, its value as split() tokens, and
\* its value's characters (read for the market value only).
Bio(title, value, raw) == [title |-> title, value |-> value, raw |-> raw]
Stat(title, value) == [title |-> title, value |-> value]

\* The site at three moments, one after the other.  At "A" player 1 is on
\* loan at Lyon and has two statistics; player 2's club is not one of the
\* scraped leagues.  At "B" player 1's shirt and value changed and the label
\* "Pass accuracy" is gone from his page; player 2 moved to Lyon and has no
\* statistics block.  At "C" player 1's page shows no country; player 2
\* moved to Nantes.
Webs == {"A", "B", "C"}
WebRank(w) == CASE w = "A" -> 1 [] w = "B" -> 2 [] w = "C" -> 3 [] OTHER -> 0
PlayerPageOf(w, id) ==
  CASE w = "A" /\ id = 1 ->
         [name |-> "Mbappe", club |-> <<"Lyon", "(on loan)">>, positions |-> <<"ST", "LW">>,
          bio |-> << Bio("Height", <<Num(185), Word("cm")>>, <<>>),
                     Bio("Shirt", <<Num(7)>>, <<>>),
                     Bio("Country", <<Word("France")>>, <<>>),
                     Bio("Age", <<Num(25), Word("years")>>, <<>>),
                     Bio("Market value", <<>>, <<"EUR", "4", "5", ".", "5", "M">>) >>,
          stats |-> Some(<< Stat("Goals", <<"2", "3">>),
                            Stat("Pass accuracy", <<"8", "7", "%">>) >>)]
    [] w = "B" /\ id = 1 ->
         [name |-> "Mbappe", club |-> <<"Lyon">>, positions |-> <<"ST">>,
          bio |-> << Bio("Height", <<Word("tall")>>, <<>>),
                     Bio("Shirt", <<Num(10)>>, <<>>),
                     Bio("Country", <<Word("France")>>, <<>>),
                     Bio("Preferred foot", <<Word("Right")>>, <<>>),
                     Bio("Market value", <<>>, <<"x", "M">>) >>,
          stats |-> Some(<< Stat("Goals", <<"1", ",", "5">>),
                            Stat("Touches", <<"x">>) >>)]
    [] w = "C" /\ id = 1 ->
         [name |-> "Mbappe", club |-> <<"Lyon">>, positions |-> <<"ST">>,
          bio |-> << Bio("Shirt", <<Num(10)>>, <<>>) >>,
          stats |-> Some(<< Stat("Goals", <<"3", "0">>) >>)]
    [] w = "A" /\ id = 2 ->
         [name |-> "Kane", club |-> <<"Chelsea">>, positions |-> <<"ST">>,
          bio |-> << Bio("Shirt", <<Num(9)>>, <<>>),
                     Bio("Country", <<Word("England")>>, <<>>) >>,
          stats |-> None]
    [] w = "B" /\ id = 2 ->
         [name |-> "Kane", club |-> <<"Lyon">>, positions |-> <<"ST">>,
          bio |-> << Bio("Shirt", <<Word("N"), Num(9)>>, <<>>),
                     Bio("Country", <<Word("England")>>, <<>>),
                     Bio("Market value", <<>>, <<"EUR", "7", "5", "0", "k">>) >>,
          stats |-> None]
    [] OTHER ->
         [name |-> "Kane", club |-> <<"Nantes">>, positions |-> <<"ST">>,
          bio |-> << Bio("Country", <<Word("England")>>, <<>>) >>,
          stats |-> None]

\* club_name: the text of the TeamCSS element, as its words, a trailing
\* "(on loan)" cut off.
ClubName(text) == IF text[Len(text)] = "(on loan)" THEN DropLast(text) ELSE text

\* The loop over stat_fields, filling player_data.  An exception inside one
\* field (split()[0] of an empty value, the ValueError of parse_market_value)
\* is caught and leaves player_data as it was.
EmptyPlayerData ==
  [height |-> None, shirt_number |-> None, age |-> None, foot |-> None,
   country |-> None, market_value |-> None]
LeadingInt(value) == IF value[1].isdigit THEN Some(value[1].n) ELSE None
RECURSIVE PlayerData(_)
PlayerData(fields) ==
  IF fields = <<>> THEN EmptyPlayerData
  ELSE LET d == PlayerData(DropLast(fields))
           f == fields[Len(fields)]
       IN CASE f.title = "Height" ->
                 IF f.value = <<>> THEN d ELSE [d EXCEPT !.height = LeadingInt(f.value)]
            [] f.title = "Shirt" -> [d EXCEPT !.shirt_number = Some(f.value)]
            [] f.title = "Preferred foot" -> [d EXCEPT !.foot = Some(f.value)]
            [] f.title = "Country" -> [d EXCEPT !.country = Some(f.value)]
            [] f.title = "Market value" ->
                 IF parse_market_value(f.raw).exc THEN d
                 ELSE [d EXCEPT !.market_value = parse_market_value(f.raw).val]
            [] OTHER ->
                 IF Word("years") \in Range(f.value)
                 THEN [d EXCEPT !.age = LeadingInt(f.value)]
                 ELSE d

\* fotmob_id = player_link.split('/')[-2]
FotmobIdWrong(link) == link.slug
FotmobId(link) == link.id

\* The defaults of Player.objects.update_or_create: the fields extracted from
\* the page, with the club the lookup found.
PlayerDefaults(page, club) ==
  LET d == PlayerData(page.bio) IN
  [name |-> page.name, club |-> club, position |-> page.positions,
   country |-> d.country,
   shirt_number |-> IF d.shirt_number # None /\ Len(d.shirt_number[1]) = 1
                       /\ d.shirt_number[1][1].isdigit
                    THEN Some(d.shirt_number[1][1].n) ELSE None,
   age |-> d.age, height |-> d.height, market_value |-> d.market_value]

\* What the extraction reads from each page of the site: the defaults of the
\* Player upsert, the club still to be looked up, and stats_data (empty for a
\* page without statistics block).
PlayerIds == {1, 2}
Extracted ==
  [w \in Webs |->
    [id \in PlayerIds |->
      [defaults |-> PlayerDefaults(PlayerPageOf(w, id), None),
       stats_data |-> IF PlayerPageOf(w, id).stats = None THEN <<>>
                      ELSE StatsData(PlayerPageOf(w, id).stats[1])]]]

\* ------------------------------------------------------------ the store
\* A table is the sequence of its rows; a row's primary key is its index (the
\* pipeline deletes nothing).
LeagueRowsNone(ls, name) == {}
LeagueRows(ls, name) == {i \in DOMAIN ls : ls[i].name = name}
ClubRowsByName(cs, name, league) == {i \in DOMAIN cs : cs[i].name = name}
ClubRows(cs, name, league) == {i \in DOMAIN cs : cs[i].name = name /\ cs[i].league = league}
\* Club.objects.get(name=club_name): the rows of that name, in any league.
ClubsNamedFirst(cs, name) ==
  LET all == {i \in DOMAIN cs : cs[i].name = name}
  IN {i \in all : \A j \in all : i <= j}
ClubsNamed(cs, name) == {i \in DOMAIN cs : cs[i].name = name}
\* The lookups of update_or_create.
PlayerRows(ps, fotmob_id) == {i \in DOMAIN ps : ps[i].fotmob_id = fotmob_id}
DataRowsNone(ds, player) == {}
DataRows(ds, player) == {i \in DOMAIN ds : ds[i].player = player}
TheRow(rows) == CHOOSE i \in rows : TRUE

\* League.objects.get_or_create(name=league_title), then
\* Club.objects.get_or_create(name=team_name, league=league): st holds both
\* tables; exc is MultipleObjectsReturned.
GetOrCreateLeagueClub(st, title, team_name) ==
  LET lhit == LeagueRows(st.leagues, title)
      ls == IF lhit = {} THEN Append(st.leagues, [name |-> title]) ELSE st.leagues
      league == IF lhit = {} THEN Len(ls) ELSE TheRow(lhit)
      chit == ClubRows(st.clubs, team_name, league)
      cs == IF chit = {} THEN Append(st.clubs, [name |-> team_name, league |-> league])
            ELSE st.clubs
  IN IF Cardinality(lhit) > 1 THEN [st EXCEPT !.exc = TRUE]
     ELSE IF Cardinality(chit) > 1 THEN [st EXCEPT !.leagues = ls, !.exc = TRUE]
     ELSE [st EXCEPT !.leagues = ls, !.clubs = cs]

\* The loop over the links of one league page (get_squad_links, lines 87-102).
RECURSIVE ProcessLinks(_, _, _)
ProcessLinks(links, title, st) ==
  IF links = <<>> \/ st.exc THEN st
  ELSE LET a == Head(links)
           team_name == IF a.name = None THEN <<"Unknown", "Team">> ELSE a.name[1]
           st1 == GetOrCreateLeagueClub(st, title, team_name)
       IN IF ~IsTeamHref(a) THEN ProcessLinks(Tail(links), title, st)
          ELSE IF st1.exc THEN st1
          ELSE ProcessLinks(Tail(links), title,
                            [st1 EXCEPT !.links = Append(st1.links, SquadLink(a))])

\* Player.objects.update_or_create(fotmob_id=..., defaults=...), its write: a
\* new row when the lookup found none, else every default set on the row
\* found.  fotmob_id is unique: an insert that meets a row of that id fails
\* and update_or_create updates that row instead.
WritePlayer(ps, found, fotmob_id, defaults) ==
  LET now == PlayerRows(ps, fotmob_id)
      hit == IF found = {} THEN now ELSE found
      row == [fotmob_id |-> fotmob_id, name |-> defaults.name, club |-> defaults.club,
              position |-> defaults.position, country |-> defaults.country,
              shirt_number |-> defaults.shirt_number, age |-> defaults.age,
              height |-> defaults.height, market_value |-> defaults.market_value]
  IN IF hit = {} THEN [rows |-> Append(ps, row), pk |-> Len(ps) + 1]
     ELSE [rows |-> [ps EXCEPT ![TheRow(hit)] = row], pk |-> TheRow(hit)]

\* A Data row is its player and the function f from the statistics fields
\* that are not null to their values.
Field(row, k) == IF k \in DOMAIN row.f THEN Some(row.f[k]) ELSE None
\* The statistics fields that are an IntegerField (models.Data); the others
\* are a FloatField.
IntegerFields ==
  { "goals", "penalty_goals", "shots", "shots_on_target", "assists",
    "accurate_long_balls", "chances_created", "successful_crosses",
    "successful_dribbles", "touches_in_opposition_box", "dispossessed",
    "fouls_won", "penalties_awarded", "tackles_won", "duels_won",
    "aerial_duels_won", "interceptions", "blocked", "fouls_committed",
    "recoveries", "possession_won_final_3rd", "dribbled_past",
    "yellow_cards", "red_cards", "saves", "goals_conceded", "clean_sheets",
    "error_led_to_goal", "high_claim", "gk_accurate_long_balls" }
\* What a save puts into field k for the number x: an IntegerField stores
\* int(x), the whole part, a FloatField stores float(x).
Stored(k, x) ==
  IF k \in IntegerFields
  THEN LET q == x.mant \div Pow10(x.scale) IN IntVal(x.neg /\ q # 0, q)
  ELSE [kind |-> "float", neg |-> x.neg, mant |-> x.mant, scale |-> x.scale]
\* The fields of `old` with those of stats_data set over them.
SetFields(old, stats_data) ==
  LET keep == {k \in DOMAIN old : k \notin DOMAIN stats_data}
      set == {k \in DOMAIN stats_data : stats_data[k] # None}
  IN [k \in keep \cup set |-> IF k \in set THEN Stored(k, stats_data[k][1]) ELSE old[k]]

\* Data.objects.update_or_create(player=player, defaults=stats_data), its
\* write: a new row holding stats_data (every other field null) when the
\* lookup found none, else the keys of stats_data set on the row found.
WriteData(ds, found, player, stats_data) ==
  IF found = {}
  THEN Append(ds, [player |-> player, f |-> SetFields(<<>>, stats_data)])
  ELSE [ds EXCEPT ![TheRow(found)].f = SetFields(@, stats_data)]

\* db_lock is the set of tasks inside `with db_lock:`.
CanAcquireUnguarded(lock) == TRUE
CanAcquire(lock) == lock = {}
\* Entering `with db_lock:`: the task holds the lock.
AcquireNothing(lock, t) == lock
Acquire(lock, t) == lock \cup {t}
\* Leaving `with db_lock:` at its end, and leaving it with an exception: the
\* context manager frees the lock either way.
ReleaseNothing(lock, t) == lock
Release(lock, t) == lock \ {t}
KeptOnError(lock, t) == lock
ReleaseOnError(lock, t) == lock \ {t}

\* driver.quit(): the owner's browser session is gone.
QuitNothing(ds, owner) == ds
Quit(ds, owner) == ds \ {owner}

\* ------------------------------------------------------------ state
VARIABLES
  run,               \* which run of the command this is
  stage,             \* where Command.handle stands
  max_workers,       \* --max-workers of this run
  leagueFate,        \* per league url: "ok", "absent" (the TableContainer
                     \* wait times out) or "error" (the title element is missing)
  web,               \* the site's content while the player pool runs (it
                     \* moves on between runs, never back)
  prev,              \* the last player pool that returned: the content it
                     \* saw and the player ids of its links
  url_idx,           \* get_squad_links: the url the loop is at
  all_team_links,    \* get_squad_links' list, then handle's
  drivers,           \* the live browser sessions, by owner
  leagues, clubs, players, data,   \* the store's tables
  tpc, tfate, tres,  \* team tasks: position, what the page did, future's result
  all_player_links,  \* get_player_links_multithreaded's list, then handle's
  ppc, loc, pres,    \* player tasks: position, locals, future's result
  db_lock,
  successful_count, failed_count,
  text,              \* the text handed to the value parsers
  applied,           \* which of the two parsers have been applied to it
  mv,                \* what parse_market_value did with it
  sv,                \* what parse_stat_value returned for it
  form_data,         \* the form handed to apply_filters (None: not yet)
  filtered           \* the queryset apply_filters returned, as primary keys

vars == <<run, stage, max_workers, leagueFate, web, prev, url_idx, all_team_links,
          drivers, leagues, clubs, players, data, tpc, tfate, tres, all_player_links,
          ppc, loc, pres, db_lock, successful_count, failed_count,
          text, applied, mv, sv, form_data, filtered>>

store == <<leagues, clubs, players, data>>
teamVars == <<tpc, tfate, tres, all_player_links>>
playerVars == <<ppc, loc, pres, db_lock, successful_count, failed_count>>
parseVars == <<text, applied, mv, sv>>
viewVars == <<form_data, filtered>>
env == <<run, max_workers, leagueFate, web, prev, parseVars, viewVars>>

WorkerChoices == (-1)..MaxWorkers
Fates == {"ok", "absent", "error"}
\* A player task's locals: the clubs Club.objects.get matched (looked: it
\* ran), the rows update_or_create's lookup found, `player`, and which writes
\* the task has made.
NoLocals == [hits |-> {}, looked |-> FALSE, found |-> {}, player |-> None, wrote |-> {}]

\* Nothing has run yet: no list, no task, no session, and an empty store.
Idle ==
  /\ run = 1
  /\ web = ""
  /\ prev = [web |-> "", ids |-> {}]
  /\ url_idx = 1
  /\ all_team_links = <<>>
  /\ drivers = {}
  /\ tpc = <<>> /\ tfate = <<>> /\ tres = <<>>
  /\ all_player_links = <<>>
  /\ ppc = <<>> /\ loc = <<>> /\ pres = <<>>
  /\ db_lock = {}
  /\ successful_count = 0 /\ failed_count = 0
Fresh ==
  /\ Idle
  /\ leagues = <<>> /\ clubs = <<>> /\ players = <<>> /\ data = <<>>

NotParsed ==
  /\ applied = {}
  /\ mv = [exc |-> FALSE, val |-> None]
  /\ sv = None
NotFiltered ==
  /\ form_data = None
  /\ filtered = <<>>

Init ==
  /\ stage = "start"
  /\ max_workers \in WorkerChoices
  /\ leagueFate \in [DOMAIN urls -> Fates]
  /\ Fresh
  /\ text = <<>>
  /\ NotParsed
  /\ NotFiltered

\* ------------------------------------------------------------ league stage
\* handle, line 40: create_driver() starts the coordinator's browser; when it
\* raises, the command ends with that exception.
HandleStart ==
  /\ stage = "start"
  /\ \/ stage' = "league" /\ drivers' = drivers \cup {<<"main", 0>>}
     \/ stage' = "crashed" /\ drivers' = drivers
  /\ UNCHANGED <<env, url_idx, all_team_links, store, teamVars, playerVars>>

\* get_squad_links, one turn of `for url in urls` (lines 75-102).  Any
\* exception leaves the loop for the handler of lines 106-108: return [].
GetSquadLinksUrl ==
  /\ stage = "league"
  /\ url_idx \in DOMAIN urls
  /\ LET page == LeaguePageOf(urls[url_idx])
         st == ProcessLinks(page.links, page.title,
                            [leagues |-> leagues, clubs |-> clubs,
                             links |-> all_team_links, exc |-> FALSE])
     IN IF leagueFate[url_idx] # "ok"
        THEN /\ all_team_links' = <<>>
             /\ stage' = "league_ret"
             /\ UNCHANGED <<url_idx, leagues, clubs>>
        ELSE /\ leagues' = st.leagues
             /\ clubs' = st.clubs
             /\ all_team_links' = IF st.exc THEN <<>> ELSE st.links
             /\ url_idx' = url_idx + 1
             /\ stage' = IF st.exc \/ url_idx = Len(urls) THEN "league_ret" ELSE "league"
  /\ UNCHANGED <<env, drivers, players, data, teamVars, playerVars>>

\* `if not all_team_links:` (line 47) and `if not all_player_links:` (line 54).
NoLinksNever(links) == FALSE
NoLinks(links) == links = <<>>

\* handle, lines 44-51: driver.quit(); no team link ends the run; else
\* get_player_links_multithreaded builds its pool (ThreadPoolExecutor raises
\* ValueError for max_workers <= 0) and submits one task per team link.
HandleAfterLeagues ==
  /\ stage = "league_ret"
  /\ drivers' = Quit(drivers, <<"main", 0>>)
  /\ IF NoLinks(all_team_links)
     THEN stage' = "no_teams" /\ UNCHANGED teamVars
     ELSE IF max_workers <= 0
     THEN stage' = "crashed" /\ UNCHANGED teamVars
     ELSE /\ stage' = "teams"
          /\ tpc' = [t \in DOMAIN all_team_links |-> "queued"]
          /\ tfate' = [t \in DOMAIN all_team_links |-> "none"]
          /\ tres' = [t \in DOMAIN all_team_links |-> [raised |-> FALSE, links |-> <<>>]]
          /\ all_player_links' = <<>>
  /\ UNCHANGED <<env, url_idx, all_team_links, store, playerVars>>

\* ------------------------------------------------------------ team stage
\* A pool thread is busy from the start of its task to the return after
\* driver.quit(); the pool starts queued tasks in submission order.
Busy(pc) == {t \in DOMAIN pc : pc[t] \notin {"queued", "finished", "collected"}}
MayStartUnbounded(pc, t) ==
  /\ pc[t] = "queued"
  /\ \A u \in DOMAIN pc : u < t => pc[u] # "queued"
MayStart(pc, t) ==
  /\ pc[t] = "queued"
  /\ \A u \in DOMAIN pc : u < t => pc[u] # "queued"
  /\ Cardinality(Busy(pc)) < max_workers

\* team_player_links of scrape_team_players (lines 123-127).
TeamPlayerLinks(elements) == SelectSeq(elements, IsPlayerHref)

\* What the future of scrape_team_players holds when the navigation or the
\* wait raised: the handler of lines 132-134 returns [].
TeamFailureRaised == [raised |-> TRUE, links |-> <<>>]
TeamFailureResult == [raised |-> FALSE, links |-> <<>>]

\* scrape_team_players up to its return value (lines 112-134): create_driver
\* raises, and the exception is the future's; or the navigation fails or the
\* wait for a SquadPlayerLink times out (as it must on a page with none), and
\* the task returns []; or the task returns the page's player links.
TeamBegin(t) ==
  /\ stage = "teams"
  /\ MayStart(tpc, t)
  /\ LET elements == SquadPageOf(all_team_links[t].team) IN
     \/ /\ tfate' = [tfate EXCEPT ![t] = "nodriver"]
        /\ tres' = [tres EXCEPT ![t] = [raised |-> TRUE, links |-> <<>>]]
        /\ tpc' = [tpc EXCEPT ![t] = "finished"]
        /\ drivers' = drivers
     \/ /\ tfate' = [tfate EXCEPT ![t] = "failed"]
        /\ tres' = [tres EXCEPT ![t] = TeamFailureResult]
        /\ tpc' = [tpc EXCEPT ![t] = "live"]
        /\ drivers' = drivers \cup {<<"team", t>>}
     \/ /\ elements # <<>>
        /\ tfate' = [tfate EXCEPT ![t] = "ok"]
        /\ tres' = [tres EXCEPT ![t] = [raised |-> FALSE, links |-> TeamPlayerLinks(elements)]]
        /\ tpc' = [tpc EXCEPT ![t] = "live"]
        /\ drivers' = drivers \cup {<<"team", t>>}
  /\ UNCHANGED <<env, stage, url_idx, all_team_links, store, all_player_links, playerVars>>

\* scrape_team_players, `finally: driver.quit()`; the future is then done.
TeamQuit(t) ==
  /\ stage = "teams"
  /\ tpc[t] = "live"
  /\ tpc' = [tpc EXCEPT ![t] = "finished"]
  /\ drivers' = Quit(drivers, <<"team", t>>)
  /\ UNCHANGED <<env, stage, url_idx, all_team_links, store, tfate, tres,
                 all_player_links, playerVars>>

\* all_player_links.extend(player_links)
ExtendUnique(list, more) == list \o SelectSeq(more, LAMBDA l : l \notin Range(list))
Extend(list, more) == list \o more

\* get_player_links_multithreaded, one turn of `for future in
\* as_completed(...)` (lines 147-153): a raised future is logged only.
TeamCollect(t) ==
  /\ stage = "teams"
  /\ tpc[t] = "finished"
  /\ tpc' = [tpc EXCEPT ![t] = "collected"]
  /\ all_player_links' = IF tres[t].raised THEN all_player_links
                         ELSE Extend(all_player_links, tres[t].links)
  /\ UNCHANGED <<env, stage, url_idx, all_team_links, drivers, store, tfate, tres, playerVars>>

\* The end of `for future in as_completed(...)`: every future was yielded.
AllCollectedEarly(pc) == \E t \in DOMAIN pc : pc[t] = "collected"
AllCollected(pc) == \A t \in DOMAIN pc : pc[t] = "collected"

\* get_player_links_multithreaded returns (line 155, its pool and futures are
\* gone) and handle goes on (lines 51-58): no player link ends the run; else
\* get_player_data_multithreaded submits one task per link.
TeamsReturn ==
  /\ stage = "teams"
  /\ AllCollected(tpc)
  /\ IF NoLinks(all_player_links)
     THEN stage' = "no_players" /\ UNCHANGED <<web, playerVars>>
     ELSE /\ stage' = "players"
          /\ web' \in {w \in Webs : WebRank(w) >= WebRank(prev.web)}
          /\ ppc' = [t \in DOMAIN all_player_links |-> "queued"]
          /\ loc' = [t \in DOMAIN all_player_links |-> NoLocals]
          /\ pres' = [t \in DOMAIN all_player_links |-> "none"]
          /\ successful_count' = 0
          /\ failed_count' = 0
          /\ db_lock' = db_lock
  /\ tpc' = <<>> /\ tfate' = <<>> /\ tres' = <<>>
  /\ UNCHANGED <<run, max_workers, leagueFate, prev, parseVars, viewVars, url_idx, all_team_links,
                 drivers, store, all_player_links>>

\* ------------------------------------------------------------ player stage
LinkOf(t) == all_player_links[t]
PageOf(t) == PlayerPageOf(web, LinkOf(t).id)
Finish(t, result) == pres' = [pres EXCEPT ![t] = result]

\* scrape_single_player's create_driver, then scrape_player_with_driver up to
\* the lock (lines 159, 221-264): create_driver raises, and the exception is
\* the future's; or the navigation or the wait for the name fails, which the
\* handler of lines 309-311 turns into False; or the page is read.
PlayerBegin(t) ==
  /\ stage = "players"
  /\ MayStart(ppc, t)
  /\ \/ /\ Finish(t, "raised")
        /\ ppc' = [ppc EXCEPT ![t] = "finished"]
        /\ drivers' = drivers
     \/ /\ Finish(t, "false")
        /\ ppc' = [ppc EXCEPT ![t] = "quit"]
        /\ drivers' = drivers \cup {<<"player", t>>}
     \/ /\ pres' = pres
        /\ ppc' = [ppc EXCEPT ![t] = "cs1"]
        /\ drivers' = drivers \cup {<<"player", t>>}
  /\ UNCHANGED <<env, stage, url_idx, all_team_links, store, teamVars, loc, db_lock,
                 successful_count, failed_count>>

\* `with db_lock:` of line 267, Club.objects.get and the lookup of
\* Player.objects.update_or_create (lines 268-274).  No club of that name
\* leaves `club` unbound, and building the defaults raises UnboundLocalError;
\* several clubs of that name raise MultipleObjectsReturned.  Both leave the
\* `with` (the lock is free again) for the handler of lines 309-311.
PlayerEnter(t) ==
  /\ stage = "players"
  /\ ppc[t] = "cs1"
  /\ CanAcquire(db_lock)
  /\ LET hits == ClubsNamed(clubs, ClubName(PageOf(t).club))
         found == PlayerRows(players, FotmobId(LinkOf(t)))
     IN /\ loc' = [loc EXCEPT ![t].hits = hits, ![t].looked = TRUE, ![t].found = found]
        /\ IF Cardinality(hits) # 1 \/ Cardinality(found) > 1
           THEN /\ Finish(t, "false")
                /\ ppc' = [ppc EXCEPT ![t] = "quit"]
                /\ db_lock' = ReleaseOnError(Acquire(db_lock, t), t)
           ELSE /\ pres' = pres
                /\ ppc' = [ppc EXCEPT ![t] = "pwrite"]
                /\ db_lock' = Acquire(db_lock, t)
  /\ UNCHANGED <<env, stage, url_idx, all_team_links, drivers, store, teamVars,
                 successful_count, failed_count>>

\* Player.name, Player.position and Player.country are columns without
\* null=True (models.py, lines 20-23): a row whose country is None is refused
\* with IntegrityError.  name and position are always texts here.
NotNullViolated(defaults) == defaults.country = None

\* The write of Player.objects.update_or_create and the end of the `with`
\* (lines 273-285).  When the database refuses the row, update_or_create's
\* transaction leaves the table as it was, the exception leaves the `with`
\* and the handler of lines 309-311 returns False.
PlayerWrite(t) ==
  /\ stage = "players"
  /\ ppc[t] = "pwrite"
  /\ LET defaults == [Extracted[web][LinkOf(t).id].defaults
                        EXCEPT !.club = Some(TheRow(loc[t].hits))]
         w == WritePlayer(players, loc[t].found, FotmobId(LinkOf(t)), defaults)
     IN IF NotNullViolated(defaults)
        THEN /\ players' = players
             /\ loc' = [loc EXCEPT ![t].found = {}]
             /\ Finish(t, "false")
             /\ ppc' = [ppc EXCEPT ![t] = "quit"]
             /\ db_lock' = ReleaseOnError(db_lock, t)
        ELSE /\ players' = w.rows
             /\ loc' = [loc EXCEPT ![t].player = Some(w.pk),
                                   ![t].wrote = @ \cup {IF loc[t].found = {} THEN "player_new"
                                                        ELSE "player_upd"},
                                   ![t].found = {}]
             /\ pres' = pres
             /\ ppc' = [ppc EXCEPT ![t] = "stats"]
             /\ db_lock' = Release(db_lock, t)
  /\ UNCHANGED <<env, stage, url_idx, all_team_links, drivers, leagues, clubs, data,
                 teamVars, successful_count, failed_count>>

\* What the task returns when the wait for the statistics block raises
\* (lines 305-307).
NoStatsResultFailure == "false"
NoStatsResult == "true"

\* The wait for the statistics block and the reading of its items (lines
\* 288-298): no block, and the bare except returns.
PlayerStats(t) ==
  /\ stage = "players"
  /\ ppc[t] = "stats"
  /\ IF PageOf(t).stats = None
     THEN Finish(t, NoStatsResult) /\ ppc' = [ppc EXCEPT ![t] = "quit"]
     ELSE pres' = pres /\ ppc' = [ppc EXCEPT ![t] = "cs2"]
  /\ UNCHANGED <<env, stage, url_idx, all_team_links, drivers, store, teamVars, loc,
                 db_lock, successful_count, failed_count>>

\* `with db_lock:` of line 300 and the lookup of Data.objects.update_or_create;
\* several rows raise MultipleObjectsReturned, which the bare except of line
\* 305 turns into True.
DataEnter(t) ==
  /\ stage = "players"
  /\ ppc[t] = "cs2"
  /\ CanAcquire(db_lock)
  /\ LET found == DataRows(data, loc[t].player[1]) IN
     IF Cardinality(found) > 1
     THEN /\ Finish(t, "true")
          /\ ppc' = [ppc EXCEPT ![t] = "quit"]
          /\ loc' = loc
          /\ db_lock' = ReleaseOnError(Acquire(db_lock, t), t)
     ELSE /\ pres' = pres
          /\ ppc' = [ppc EXCEPT ![t] = "dwrite"]
          /\ loc' = [loc EXCEPT ![t].found = found]
          /\ db_lock' = Acquire(db_lock, t)
  /\ UNCHANGED <<env, stage, url_idx, all_team_links, drivers, store, teamVars,
                 successful_count, failed_count>>

\* The write of Data.objects.update_or_create, the end of the `with` and
\* `return True` (lines 301-304).
DataWrite(t) ==
  /\ stage = "players"
  /\ ppc[t] = "dwrite"
  /\ data' = WriteData(data, loc[t].found, loc[t].player[1],
                        Extracted[web][LinkOf(t).id].stats_data)
  /\ loc' = [loc EXCEPT ![t].wrote = @ \cup {IF loc[t].found = {} THEN "data_new" ELSE "data_upd"},
                        ![t].found = {}]
  /\ db_lock' = Release(db_lock, t)
  /\ Finish(t, "true")
  /\ ppc' = [ppc EXCEPT ![t] = "quit"]
  /\ UNCHANGED <<env, stage, url_idx, all_team_links, drivers, leagues, clubs, players,
                 teamVars, successful_count, failed_count>>

\* scrape_single_player, `finally: driver.quit()`; the future is then done.
PlayerQuit(t) ==
  /\ stage = "players"
  /\ ppc[t] = "quit"
  /\ ppc' = [ppc EXCEPT ![t] = "finished"]
  /\ drivers' = Quit(drivers, <<"player", t>>)
  /\ UNCHANGED <<env, stage, url_idx, all_team_links, store, teamVars, loc, pres,
                 db_lock, successful_count, failed_count>>

\* What one future adds to <<successful_count, failed_count>> (lines 329-337).
CountedRaisedLost(result) ==
  IF result = "true" THEN <<1, 0>> ELSE IF result = "false" THEN <<0, 1>> ELSE <<0, 0>>
Counted(result) == IF result = "true" THEN <<1, 0>> ELSE <<0, 1>>

\* get_player_data_multithreaded, one turn of `for future in as_completed(...)`.
PlayerCollect(t) ==
  /\ stage = "players"
  /\ ppc[t] = "finished"
  /\ ppc' = [ppc EXCEPT ![t] = "collected"]
  /\ successful_count' = successful_count + Counted(pres[t])[1]
  /\ failed_count' = failed_count + Counted(pres[t])[2]
  /\ UNCHANGED <<env, stage, url_idx, all_team_links, drivers, store, teamVars, loc,
                 pres, db_lock>>

\* get_player_data_multithreaded returns (line 339), and handle with it.
PlayersReturn ==
  /\ stage = "players"
  /\ AllCollected(ppc)
  /\ stage' = "done"
  /\ UNCHANGED <<env, url_idx, all_team_links, drivers, store, teamVars, playerVars>>

\* ------------------------------------------------------------ runs
Ended == stage \in {"done", "no_teams", "no_players", "crashed"}

\* The command is run again, on the store the earlier runs left.
NextRun ==
  /\ Ended
  /\ run < MaxRuns
  /\ run' = run + 1
  /\ stage' = "start"
  /\ max_workers' \in WorkerChoices
  /\ leagueFate' \in [DOMAIN urls -> Fates]
  /\ web' = ""
  /\ prev' = IF stage = "done"
             THEN [web |-> web, ids |-> {all_player_links[t].id : t \in DOMAIN all_player_links}]
             ELSE prev
  /\ url_idx' = 1
  /\ all_team_links' = <<>>
  /\ drivers' = {}
  /\ tpc' = <<>> /\ tfate' = <<>> /\ tres' = <<>>
  /\ all_player_links' = <<>>
  /\ ppc' = <<>> /\ loc' = <<>> /\ pres' = <<>>
  /\ db_lock' = {}
  /\ successful_count' = 0 /\ failed_count' = 0
  /\ UNCHANGED <<store, parseVars, viewVars>>

Next ==
  \/ HandleStart
  \/ GetSquadLinksUrl
  \/ HandleAfterLeagues
  \/ \E t \in DOMAIN tpc : TeamBegin(t) \/ TeamQuit(t) \/ TeamCollect(t)
  \/ TeamsReturn
  \/ \E t \in DOMAIN ppc :
       \/ PlayerBegin(t) \/ PlayerEnter(t) \/ PlayerWrite(t) \/ PlayerStats(t)
       \/ DataEnter(t) \/ DataWrite(t) \/ PlayerQuit(t) \/ PlayerCollect(t)
  \/ PlayersReturn
  \/ NextRun

Spec == Init /\ [][Next]_vars

\* ------------------------------------------------------------ scheduling
\* The threads of a run: the coordinator runs handle and, inside it, the two
\* as_completed loops; every task of a pool runs on a worker thread.  A pool
\* has at most as many tasks as the pages show links.
TaskIds == 1..(Len(LeaguePageOf(53).links) + Len(LeaguePageOf(47).links))
Coordinator ==
  \/ HandleStart
  \/ GetSquadLinksUrl
  \/ HandleAfterLeagues
  \/ \E t \in DOMAIN tpc : TeamCollect(t)
  \/ TeamsReturn
  \/ \E t \in DOMAIN ppc : PlayerCollect(t)
  \/ PlayersReturn
TeamTask(t) == t \in DOMAIN tpc /\ (TeamBegin(t) \/ TeamQuit(t))
PlayerTask(t) ==
  /\ t \in DOMAIN ppc
  /\ \/ PlayerBegin(t) \/ PlayerEnter(t) \/ PlayerWrite(t) \/ PlayerStats(t)
     \/ DataEnter(t) \/ DataWrite(t) \/ PlayerQuit(t)

\* Every navigation and wait returns or times out, and a thread that can
\* take its next step is scheduled: no thread that stays able to step is
\* left waiting for ever.  Whether the command is run again is up to its user.
Fairness ==
  /\ WF_vars(Coordinator)
  /\ \A t \in TaskIds : WF_vars(TeamTask(t)) /\ WF_vars(PlayerTask(t))

FairSpec == Init /\ [][Next]_vars /\ Fairness

\* ------------------------------------------------------------ the parsers alone
\* parse_market_value and parse_stat_value applied to one text each way.  The
\* texts: every one of up to MaxLen characters of TextChars, and the examples
\* of the two functions' use.
TextChars == {"EUR", "1", "5", ".", ",", "M", "k", "%", "x", " "}
TextExamples ==
  { <<"EUR", "4", "5", ".", "5", "M">>, <<"EUR", "7", "5", "0", "K">>, <<"EUR", "1", "0">>,
    <<"N", "/", "A">>, <<"EUR", "1", ",", "2", "0", "0", "K">>,
    <<"8", "7", "%">>, <<"1", ",", "5">>, <<"2", "3">>, <<>> }
TextInputs == TextExamples \cup UNION {[1..n -> TextChars] : n \in 0..MaxLen}

ParseInit ==
  /\ stage = "parse"
  /\ max_workers = 1
  /\ leagueFate = [u \in DOMAIN urls |-> "ok"]
  /\ Fresh
  /\ text \in TextInputs
  /\ NotParsed
  /\ NotFiltered

\* player_data['market_value'] = parse_market_value(value), line 258.
ApplyMarketValue ==
  /\ stage = "parse"
  /\ "market" \notin applied
  /\ mv' = parse_market_value(text)
  /\ applied' = applied \cup {"market"}
  /\ UNCHANGED <<run, stage, max_workers, leagueFate, web, prev, url_idx, all_team_links,
                 drivers, store, teamVars, playerVars, text, sv, viewVars>>

\* stats_data[key] = parse_stat_value(value), line 298.
ApplyStatValue ==
  /\ stage = "parse"
  /\ "stat" \notin applied
  /\ sv' = parse_stat_value(text)
  /\ applied' = applied \cup {"stat"}
  /\ UNCHANGED <<run, stage, max_workers, leagueFate, web, prev, url_idx, all_team_links,
                 drivers, store, teamVars, playerVars, text, mv, viewVars>>

ParseNext == ApplyMarketValue \/ ApplyStatValue

ParseSpec == ParseInit /\ [][ParseNext]_vars

\* ------------------------------------------------------------ the view's filter
\* views.apply_filters, on a store the pipeline's tables can hold.
\* order_by('name'): the names' places in alphabetical order.
NameRank(n) == CASE n = "Kane" -> 1 [] n = "Mbappe" -> 2 [] OTHER -> 0

\* filter(club__league_id__in=league_ids): the join drops a player without
\* club.
InLeaguesByName(row, cs, league_ids) ==
  /\ row.club # None
  /\ \E c \in DOMAIN cs : cs[c].league \in league_ids /\ cs[c].name = cs[row.club[1]].name
InLeagues(row, cs, league_ids) ==
  /\ row.club # None
  /\ cs[row.club[1]].league \in league_ids

\* position__icontains: upper and lower case are one.  A selected position
\* is one position code, and no code here is part of another.
FoldCase(w) == CASE w = "st" -> "ST" [] w = "lw" -> "LW" [] OTHER -> w
PositionContains(position, sel) ==
  \E j \in DOMAIN position : FoldCase(position[j]) = FoldCase(sel)

\* Player.height is a CharField: height__gte and height__lte compare the
\* decimal texts, character by character.
RECURSIVE DigitsOf(_)
DigitsOf(n) == IF n < 10 THEN <<Digits[n + 1]>> ELSE Append(DigitsOf(n \div 10), Digits[(n % 10) + 1])
RECURSIVE TextLeq(_, _)
TextLeq(a, b) ==
  IF a = <<>> THEN TRUE
  ELSE IF b = <<>> THEN FALSE
  ELSE IF a[1] # b[1] THEN DigitVal(a[1]) < DigitVal(b[1])
  ELSE TextLeq(Tail(a), Tail(b))

\* The filters of apply_filters, one after the other (lines 118-158); a
\* comparison with a null column is not true.
Matches(row, cs, fd) ==
  /\ fd.league_ids # {} => InLeagues(row, cs, fd.league_ids)
  /\ fd.club_ids # {} => (row.club # None /\ row.club[1] \in fd.club_ids)
  /\ fd.countries_selected # {} =>
       (row.country # None /\ row.country[1] \in fd.countries_selected)
  /\ fd.positions_selected # <<>> =>
       \E i \in DOMAIN fd.positions_selected :
         PositionContains(row.position, fd.positions_selected[i])
  /\ fd.min_age > 0 => (row.age # None /\ row.age[1] >= fd.min_age)
  /\ fd.max_age < 100 => (row.age # None /\ row.age[1] <= fd.max_age)
  /\ fd.min_height > 0 =>
       (row.height # None /\ TextLeq(DigitsOf(fd.min_height), DigitsOf(row.height[1])))
  /\ fd.max_height < 250 =>
       (row.height # None /\ TextLeq(DigitsOf(row.height[1]), DigitsOf(fd.max_height)))
  /\ fd.min_market_value > 0 =>
       (row.market_value # None /\ row.market_value[1] >= fd.min_market_value)
  /\ fd.max_market_value < 500000000 =>
       (row.market_value # None /\ row.market_value[1] <= fd.max_market_value)

\* apply_filters: the rows that pass every filter, ordered by name; rows of
\* one name come in any order.
apply_filters(fd, ps, cs) ==
  LET hit == {i \in DOMAIN ps : Matches(ps[i], cs, fd)}
  IN {q \in [1..Cardinality(hit) -> hit] :
        /\ \A i, j \in DOMAIN q : i # j => q[i] # q[j]
        /\ \A i, j \in DOMAIN q : i < j => NameRank(ps[q[i]].name) <= NameRank(ps[q[j]].name)}

\* The League and Club tables as get_squad_links leaves them when both league
\* pages rendered.
RECURSIVE LeagueStageStore(_)
LeagueStageStore(u) ==
  IF u = 0 THEN [leagues |-> <<>>, clubs |-> <<>>, links |-> <<>>, exc |-> FALSE]
  ELSE ProcessLinks(LeaguePageOf(urls[u]).links, LeaguePageOf(urls[u]).title,
                    LeagueStageStore(u - 1))

\* The Player rows a task writes for the pages of players 1 and 2, under any
\* club or none (Player.club is nullable); fotmob_id is unique, so the row at
\* place i gets the id i.
PlayerRowsFor(i, cs) ==
  {WritePlayer(<<>>, {}, i, PlayerDefaults(page, club)).rows[1] :
     page \in {PlayerPageOf("A", 1), PlayerPageOf("B", 2)},
     club \in {None} \cup {Some(c) : c \in DOMAIN cs}}
PlayerTables(cs) ==
  UNION {{ps \in [1..n -> UNION {PlayerRowsFor(i, cs) : i \in 1..n}] :
            \A i \in 1..n : ps[i] \in PlayerRowsFor(i, cs)} : n \in 0..MaxPlayers}

\* The forms: every choice of leagues, alone or with one other filter set.
DefaultForm ==
  [league_ids |-> {}, club_ids |-> {}, countries_selected |-> {},
   positions_selected |-> <<>>, min_age |-> 0, max_age |-> 100,
   min_height |-> 0, max_height |-> 250,
   min_market_value |-> 0, max_market_value |-> 500000000]
OneFilterForms ==
  { DefaultForm,
    [DefaultForm EXCEPT !.club_ids = {1}],
    [DefaultForm EXCEPT !.club_ids = {3}],
    [DefaultForm EXCEPT !.countries_selected = {<<Word("France")>>}],
    [DefaultForm EXCEPT !.positions_selected = <<"lw">>],
    [DefaultForm EXCEPT !.min_age = 30],
    [DefaultForm EXCEPT !.max_age = 30],
    [DefaultForm EXCEPT !.min_height = 90],
    [DefaultForm EXCEPT !.max_height = 190],
    [DefaultForm EXCEPT !.min_market_value = 1000000],
    [DefaultForm EXCEPT !.max_market_value = 1000000] }
Forms(ls) == {[f EXCEPT !.league_ids = L] : f \in OneFilterForms, L \in SUBSET (DOMAIN ls)}

ViewInit ==
  /\ stage = "view"
  /\ max_workers = 1
  /\ leagueFate = [u \in DOMAIN urls |-> "ok"]
  /\ Idle
  /\ leagues = LeagueStageStore(Len(urls)).leagues
  /\ clubs = LeagueStageStore(Len(urls)).clubs
  /\ players \in PlayerTables(clubs)
  /\ data = <<>>
  /\ text = <<>>
  /\ NotParsed
  /\ NotFiltered

\* handle_post_request: players = apply_filters(form_data), line 59.
ApplyFilters ==
  /\ stage = "view"
  /\ form_data = None
  /\ \E fd \in Forms(leagues) :
       /\ form_data' = Some(fd)
       /\ filtered' \in apply_filters(fd, players, clubs)
  /\ UNCHANGED <<run, stage, max_workers, leagueFate, web, prev, url_idx, all_team_links,
                 drivers, store, teamVars, playerVars, parseVars>>

ViewNext == ApplyFilters

ViewSpec == ViewInit /\ [][ViewNext]_vars

\* ------------------------------------------------------------ claims
Done == stage = "done"
Returned(t) == ppc[t] \in {"quit", "finished", "collected"}
LinkIds == {all_player_links[t].id : t \in DOMAIN all_player_links}
TasksOf(id) == {t \in DOMAIN all_player_links : all_player_links[t].id = id}
RowsOfId(id) == {i \in DOMAIN players : players[i].fotmob_id = id}
DataOf(p) == {i \in DOMAIN data : data[i].player = p}
WrotePlayer(t) == loc[t].wrote \cap {"player_new", "player_upd"} # {}
WroteData(t) == loc[t].wrote \cap {"data_new", "data_upd"} # {}

\* C1 as stated: once get_player_data_multithreaded has completed, the store
\* holds exactly one Player row for every identifier that several links carry.
C1_ExactlyOneRow ==
  Done => \A id \in LinkIds :
            Cardinality(TasksOf(id)) >= 2 => Cardinality(RowsOfId(id)) = 1

\* C1, amended: once get_player_data_multithreaded has completed, the store
\* holds at most one Player row for every identifier that several links
\* carry, and exactly one when a task of that identifier reported success.
C1_NoDuplicateRow ==
  Done => \A id \in LinkIds :
            Cardinality(TasksOf(id)) >= 2 =>
              /\ Cardinality(RowsOfId(id)) <= 1
              /\ (\E t \in TasksOf(id) : pres[t] = "true") => Cardinality(RowsOfId(id)) = 1

C1_Witness ==
  /\ Done
  /\ max_workers >= 2
  /\ \E id \in LinkIds :
       /\ Cardinality(TasksOf(id)) >= 2
       /\ \A t \in TasksOf(id) : pres[t] = "true"
       /\ Cardinality(RowsOfId(id)) = 1

\* C2: in every reachable state the store holds at most one Data row per
\* Player.
C2_OneDataRowPerPlayer ==
  \A p \in DOMAIN players : Cardinality(DataOf(p)) <= 1

C2_Witness ==
  /\ run >= 2
  /\ \E t, u \in DOMAIN loc :
       /\ t # u
       /\ WroteData(t) /\ WroteData(u)
       /\ loc[t].player = loc[u].player
       /\ Cardinality(DataOf(loc[t].player[1])) = 1

\* C3: when get_player_data_multithreaded has completed a batch of N tasks of
\* which k raised or failed, successful_count is N - k and failed_count is k,
\* and the Player row of every other task is in the store.
C3_PartialFailureIsolation ==
  Done =>
    LET N == Len(all_player_links)
        k == Cardinality({t \in DOMAIN pres : pres[t] # "true"})
    IN /\ successful_count = N - k
       /\ failed_count = k
       /\ successful_count + failed_count = N
       /\ \A t \in DOMAIN pres :
            pres[t] = "true" => RowsOfId(all_player_links[t].id) # {}

C3_Witness ==
  /\ Done
  /\ \E t, u, v \in DOMAIN pres :
       pres[t] = "true" /\ pres[u] = "false" /\ pres[v] = "raised"
  /\ failed_count = 2

\* C4: when every team future has been taken from as_completed, the list of
\* get_player_links_multithreaded holds, for every link, as many copies as
\* the squad pages of the teams whose task succeeded show, and so as many
\* links as those teams' counts add up to (a failed team adds none).
PlayerHrefCount(team, l) ==
  Cardinality({i \in DOMAIN SquadPageOf(team) :
                 SquadPageOf(team)[i].kind = "players"
                 /\ (l = None \/ Some(SquadPageOf(team)[i]) = l)})
Discovered(t, l) == IF tfate[t] = "ok" THEN PlayerHrefCount(all_team_links[t].team, l) ELSE 0
C4_FanInComplete ==
  (stage = "teams" /\ \A t \in DOMAIN tpc : tpc[t] = "collected") =>
    /\ Len(all_player_links) = SumSeq([t \in DOMAIN tpc |-> Discovered(t, None)])
    /\ \A l \in Range(all_player_links) :
         Cardinality({i \in DOMAIN all_player_links : all_player_links[i] = l})
           = SumSeq([t \in DOMAIN tpc |-> Discovered(t, Some(l))])

C4_Witness ==
  /\ stage = "teams"
  /\ \A t \in DOMAIN tpc : tpc[t] = "collected"
  /\ max_workers >= 2
  /\ Len(all_player_links) = 3
  /\ all_player_links[1] = all_player_links[2]
  /\ \E t \in DOMAIN tpc : tfate[t] = "failed"

\* The squad links a league page yields when it renders.
LeagueSquadLinks(u) ==
  LET links == LeaguePageOf(urls[u]).links IN
  [i \in DOMAIN SelectSeq(links, LAMBDA a : a.kind = "teams") |->
     [kind |-> "teams", team |-> SelectSeq(links, LAMBDA a : a.kind = "teams")[i].team,
      page |-> "squad"]]
RECURSIVE LinksBefore(_)
LinksBefore(u) == IF u <= 1 THEN <<>> ELSE LinksBefore(u - 1) \o LeagueSquadLinks(u - 1)

\* C5 as stated: when the TableContainer of one league url is absent after
\* the wait (and every other league renders), get_squad_links returns the
\* squad links of every later league, and the run goes on to the team stage.
C5_LaterLeaguesKept ==
  \A u \in DOMAIN urls :
    ( /\ stage \in {"league_ret", "no_teams"}
      /\ leagueFate[u] = "absent"
      /\ \A w \in DOMAIN urls : w # u => leagueFate[w] = "ok"
      /\ \E w \in DOMAIN urls : w > u )
    => /\ stage # "no_teams"
       /\ \A w \in DOMAIN urls :
            w > u => Range(LeagueSquadLinks(w)) \subseteq Range(all_team_links)

\* C6 as stated: when an exception escapes the processing of one league url,
\* get_squad_links returns the squad links of the leagues processed before it.
C6_CollectedSoFarReturned ==
  \A u \in DOMAIN urls :
    ( /\ stage = "league_ret"
      /\ leagueFate[u] = "error"
      /\ \A w \in DOMAIN urls : w < u => leagueFate[w] = "ok" )
    => all_team_links = LinksBefore(u)

\* C7 as stated: a player task that found no Club of the player's club name
\* has upserted the Player row with a null club and reports success.
C7_MissingClubIsNoFailure ==
  \A t \in DOMAIN ppc :
    (Returned(t) /\ loc[t].looked /\ loc[t].hits = {}) =>
      /\ pres[t] = "true"
      /\ \E i \in RowsOfId(all_player_links[t].id) : players[i].club = None

\* C8: a player task that wrote its Player row and found no statistics block
\* reports success, its Player row is in the store, and it has written no
\* Data row.
C8_NoStatsIsSuccess ==
  \A t \in DOMAIN ppc :
    (Returned(t) /\ WrotePlayer(t) /\ PageOf(t).stats = None) =>
      /\ pres[t] = "true"
      /\ ~WroteData(t)
      /\ loc[t].player # None
      /\ loc[t].player[1] \in RowsOfId(all_player_links[t].id)
      /\ players[loc[t].player[1]].name = PageOf(t).name

C8_Witness ==
  \E t \in DOMAIN ppc :
    /\ ppc[t] = "collected"
    /\ WrotePlayer(t)
    /\ PageOf(t).stats = None
    /\ pres[t] = "true"
    /\ DataOf(loc[t].player[1]) = {}

\* The identifiers the player pool has now processed for the second time in a
\* row against the same content.
TwiceSameContent(id) ==
  /\ Done
  /\ prev.web = web
  /\ id \in prev.ids
  /\ id \in LinkIds
\* What field k of a Data row holds after a save of the parsed value m.
StoredField(k, m) == IF m = None THEN None ELSE Some(Stored(k, m[1]))
\* The row holds what the extraction reads from the page of `id` now.
PlayerRowAsExtracted(row, id) ==
  LET page == PlayerPageOf(web, id)
      d == PlayerDefaults(page, row.club)
  IN /\ row.club # None
     /\ clubs[row.club[1]].name = ClubName(page.club)
     /\ row = [fotmob_id |-> id, name |-> d.name, club |-> d.club, position |-> d.position,
               country |-> d.country, shirt_number |-> d.shirt_number, age |-> d.age,
               height |-> d.height, market_value |-> d.market_value]

C10_WholeRowReplaced ==
  \A t \in DOMAIN ppc :
    (Returned(t) /\ WroteData(t)) =>
      \A j \in DataOf(loc[t].player[1]) : \A k \in DataKeys :
        k \notin DOMAIN StatsData(PageOf(t).stats[1]) => Field(data[j], k) = None

\* C11: a run that discovered no team link halts with no team task, no player
\* task and no browser session, and one that discovered no player link halts
\* with no player task and no browser session; the team pool runs only on a
\* non-empty list of team links and the player pool only on a non-empty list
\* of player links; and from a halted run on, nothing writes a Player or Data
\* row, starts a task or opens a session.
C11_EmptyStageHalts ==
  /\ [](/\ stage = "no_teams" => (all_team_links = <<>> /\ tpc = <<>> /\ ppc = <<>> /\ drivers = {})
        /\ stage = "no_players" => (all_player_links = <<>> /\ ppc = <<>> /\ drivers = {})
        /\ stage = "teams" => all_team_links # <<>>
        /\ stage \in {"players", "done"} => (all_team_links # <<>> /\ all_player_links # <<>>))
  /\ [][(stage \in {"no_teams", "no_players"}) =>
         (players' = players /\ data' = data /\ drivers' = {} /\ tpc' = <<>> /\ ppc' = <<>>)]_vars
\* A second run halts for want of player links, on a store the first run filled.
C11_Witness ==
  /\ stage = "no_players" /\ run = 2
  /\ all_team_links # <<>> /\ players # <<>>

\* C12: player tasks exist only once the team pool is gone, one per link of
\* all_player_links; team tasks exist only in the team stage, one per team
\* link, with the coordinator's browser already quit; the step that creates
\* the player tasks is taken when every team future has been collected and
\* leaves all_player_links as the team pool built it; and the step that
\* creates the team tasks is taken when get_squad_links has returned.
C12_StageBarrier ==
  /\ [](/\ ppc # <<>> => (/\ tpc = <<>> /\ stage \in {"players", "done"}
                          /\ DOMAIN ppc = DOMAIN all_player_links)
        /\ tpc # <<>> => (/\ stage = "teams" /\ <<"main", 0>> \notin drivers
                          /\ DOMAIN tpc = DOMAIN all_team_links))
  /\ [][(ppc = <<>> /\ ppc' # <<>>) =>
         (/\ stage = "teams"
          /\ \A t \in DOMAIN tpc : tpc[t] = "collected"
          /\ all_player_links' = all_player_links)]_vars
  /\ [][(tpc = <<>> /\ tpc' # <<>>) =>
         (stage = "league_ret" /\ all_team_links' = all_team_links)]_vars
\* A player task is running; its pool got the links of both teams of the
\* first league.
C12_Witness ==
  /\ stage = "players"
  /\ \E t \in DOMAIN ppc : ppc[t] \notin {"queued", "collected"}
  /\ Len(all_player_links) = 3

\* What as_completed's loop takes from a team future: its list, or nothing
\* when it raised.
Contribution(t) == IF tres[t].raised THEN <<>> ELSE tres[t].links
CopiesIn(list, l) == Cardinality({i \in DOMAIN list : list[i] = l})

\* C13: in the team stage, a task whose navigation or wait failed returns the
\* empty list and one whose browser did not start contributes nothing; every
\* other task that ran returns the player links of its own squad page,
\* whatever its siblings did; while a task is unresolved or uncollected some
\* team task can start, quit or be collected; and once every future is
\* collected every task has run, and the list holds every link of every task
\* that succeeded, as often as those tasks returned it.
C13_TeamFailureIsolated ==
  stage = "teams" =>
    /\ \A t \in DOMAIN tpc :
         /\ tfate[t] = "failed" => (~tres[t].raised /\ tres[t].links = <<>>)
         /\ tfate[t] = "nodriver" => Contribution(t) = <<>>
         /\ tfate[t] = "ok" =>
              tres[t] = [raised |-> FALSE,
                         links |-> TeamPlayerLinks(SquadPageOf(all_team_links[t].team))]
         /\ tfate[t] = "none" <=> tpc[t] = "queued"
    /\ ~AllCollected(tpc) =>
         \E t \in DOMAIN tpc : tpc[t] \in {"live", "finished"} \/ MayStart(tpc, t)
    /\ AllCollected(tpc) =>
         \A l \in UNION {Range(Contribution(t)) : t \in DOMAIN tpc} :
           CopiesIn(all_player_links, l)
             = SumSeq([t \in DOMAIN tpc |-> CopiesIn(Contribution(t), l)])
\* Of four team tasks, one timed out and one raised; the list holds the links
\* of the first league's two teams, which both succeeded.
C13_Witness ==
  /\ stage = "teams" /\ AllCollected(tpc)
  /\ \E t, u \in DOMAIN tpc : tfate[t] = "failed" /\ tfate[u] = "nodriver"
  /\ \E t, u \in DOMAIN tpc : t # u /\ tfate[t] = "ok" /\ tfate[u] = "ok"
  /\ Len(all_player_links) = 3

\* The team names get_squad_links has observed under the league of url u in
\* this run, once its loop is past that url.
Observed ==
  [u \in DOMAIN urls |->
     [title |-> LeaguePageOf(urls[u]).title,
      names |-> {IF a.name = None THEN <<"Unknown", "Team">> ELSE a.name[1] :
                   a \in {b \in Range(LeaguePageOf(urls[u]).links) : IsTeamHref(b)}}]]
ObservedNames(u) == Observed[u].names

\* C14: in every reachable state, after any number of runs, no two League
\* rows have the same name and no two Club rows the same name and league;
\* every team name observed under a league the loop has processed has its
\* Club row under that league's row; and a name observed under two leagues
\* has two Club rows, one per league.
C14_ClubPerNameAndLeague ==
  /\ \A i, j \in DOMAIN leagues : leagues[i].name = leagues[j].name => i = j
  /\ \A i, j \in DOMAIN clubs :
       (clubs[i].name = clubs[j].name /\ clubs[i].league = clubs[j].league) => i = j
  /\ \A i \in DOMAIN clubs : clubs[i].league \in DOMAIN leagues
  /\ \A u \in DOMAIN urls : u < url_idx =>
       \A n \in ObservedNames(u) :
         Cardinality({i \in DOMAIN clubs :
                        /\ clubs[i].name = n
                        /\ leagues[clubs[i].league].name = Observed[u].title}) = 1
  /\ \A u, w \in DOMAIN urls : (u < w /\ w < url_idx) =>
       \A n \in ObservedNames(u) \cap ObservedNames(w) :
         Cardinality({clubs[i].league : i \in ClubsNamed(clubs, n)}) >= 2
\* The second run has processed both leagues again: four Club rows, two of
\* them named Nantes.
C14_Witness ==
  /\ run = 2 /\ url_idx = Len(urls) + 1
  /\ prev.web # ""
  /\ Len(clubs) = 4
  /\ Cardinality(ClubsNamed(clubs, <<"Nantes">>)) = 2

\* C15 as stated: for every --max-workers value, 0 and negative ones
\* included, a run that discovered team links does not end in the pool's
\* constructor: its stages run with at least one worker.
C15_WorkerFloor ==
  (max_workers <= 0 /\ all_team_links # <<>>) => stage # "crashed"

\* The magnitude-suffix rule: the currency sign stripped, upper case, the
\* thousands separators stripped; then a number before 'M' times 1,000,000,
\* a number before 'K' times 1,000, a plain integer as it is, and null for
\* everything else.
MarketRule(value) ==
  LET v == RemoveChar(Upper(Strip(RemoveChar(value, "EUR"))), ",")
      num == PyFloatAny(DropLast(v))
  IN IF EndsWith(v, "M")
     THEN IF num = None THEN None ELSE Some(ScaledInt(num[1], 1000000))
     ELSE IF EndsWith(v, "K")
     THEN IF num = None THEN None ELSE Some(ScaledInt(num[1], 1000))
     ELSE IF PyInt(v) = None THEN None ELSE Some(ScaledInt(PyInt(v)[1], 1))

\* C16 as stated: for every text, parse_market_value raises nothing and
\* returns what the magnitude-suffix rule gives, null for an unparsable text.
C16_MarketValueRule ==
  "market" \in applied => mv = [exc |-> FALSE, val |-> MarketRule(text)]

\* C17: for every text, parse_stat_value returns null when the text, one
\* trailing '%' cut off and every comma made a point, is no number; the
\* integer it spells when it holds no point; and the float it spells when it
\* holds one.  "87%" gives the integer 87, "1,5" the float 1.5, "23" the
\* integer 23 and "" null.
C17_StatValueRule ==
  "stat" \in applied =>
    LET cut == IF text # <<>> /\ text[Len(text)] = "%" THEN SubSeq(text, 1, Len(text) - 1) ELSE text
        body == [i \in DOMAIN cut |-> IF cut[i] = "," THEN "." ELSE cut[i]]
        pointed == \E i \in DOMAIN body : body[i] = "."
    IN /\ (~pointed /\ PyInt(body) # None) =>
            (sv = PyInt(body) /\ sv[1].kind = "int")
       /\ (pointed /\ PyFloat(body) # None) =>
            (sv = PyFloat(body) /\ sv[1].kind = "float")
       /\ ((~pointed /\ PyInt(body) = None) \/ (pointed /\ PyFloat(body) = None)) => sv = None
       /\ text = <<"8", "7", "%">> => sv = Some([kind |-> "int", neg |-> FALSE, mant |-> 87, scale |-> 0])
       /\ text = <<"1", ",", "5">> => sv = Some([kind |-> "float", neg |-> FALSE, mant |-> 15, scale |-> 1])
       /\ text = <<"2", "3">> => sv = Some([kind |-> "int", neg |-> FALSE, mant |-> 23, scale |-> 0])
       /\ text = <<>> => sv = None
       /\ text = <<"x">> => sv = None
\* "87%" has been parsed, to the integer 87.
C17_Witness ==
  /\ "stat" \in applied
  /\ text = <<"8", "7", "%">>
  /\ sv # None /\ sv[1].mant = 87 /\ sv[1].kind = "int"

\* C18: after apply_filters has run on a form that selects leagues, every
\* player it returned has a club whose league is one of those selected, also
\* when a club of the same name exists under another league; and when no
\* other filter is set it returned every such player, once.
C18_LeagueFilterScoped ==
  (form_data # None /\ form_data[1].league_ids # {}) =>
    /\ \A i \in DOMAIN filtered :
         /\ players[filtered[i]].club # None
         /\ clubs[players[filtered[i]].club[1]].league \in form_data[1].league_ids
    /\ [form_data[1] EXCEPT !.league_ids = {}] = DefaultForm =>
         /\ \A p \in DOMAIN players :
              (players[p].club # None
               /\ clubs[players[p].club[1]].league \in form_data[1].league_ids)
                => \E i \in DOMAIN filtered : filtered[i] = p
         /\ \A i, j \in DOMAIN filtered : filtered[i] = filtered[j] => i = j
\* Two players of two clubs named Nantes, one per league; the filter on the
\* first league returned the first player only.
C18_Witness ==
  /\ form_data # None
  /\ form_data[1].league_ids = {1}
  /\ Len(players) = 2
  /\ players[1].club # None /\ players[2].club # None
  /\ clubs[players[1].club[1]].name = <<"Nantes">> /\ clubs[players[1].club[1]].league = 1
  /\ clubs[players[2].club[1]].name = <<"Nantes">> /\ clubs[players[2].club[1]].league = 2
  /\ filtered = <<1>>

\* The player tasks between the lookup and the write of an upsert, and the
\* positions from which a task's next step reads or writes the store.
Inside == {t \in DOMAIN ppc : ppc[t] \in {"pwrite", "dwrite"}}
AtStore(t) == ppc[t] \in {"cs1", "pwrite", "cs2", "dwrite"}

\* C19: at most one player task is between the lookup and the write of an
\* upsert, and it is the one holding db_lock; and while a task is there, no
\* other task takes a step that reads or writes the store.
C19_CheckThenActExclusive ==
  /\ [](Cardinality(Inside) <= 1 /\ db_lock = Inside)
  /\ [][\A t \in Inside : \A u \in DOMAIN ppc :
          (u # t /\ AtStore(u)) => (u \in DOMAIN ppc' /\ ppc'[u] = ppc[u])]_vars
\* One task has looked its Data row up and is about to write it, while
\* another, on the same player, waits to look its club and player up.
C19_Witness ==
  \E t, u \in DOMAIN ppc :
    /\ ppc[t] = "dwrite" /\ ppc[u] = "cs1"
    /\ FotmobId(LinkOf(t)) = FotmobId(LinkOf(u))
    /\ db_lock = {t}

C21_SessionsTornDown ==
  /\ Ended => drivers = {}
  /\ <<"main", 0>> \in drivers => stage \in {"league", "league_ret"}
  /\ \A t \in DOMAIN tpc :
       tpc[t] \in {"finished", "collected"} => <<"team", t>> \notin drivers
  /\ \A t \in DOMAIN ppc :
       ppc[t] \in {"finished", "collected"} => <<"player", t>> \notin drivers
  /\ \A d \in drivers :
       \/ d = <<"main", 0>>
       \/ d[1] = "team" /\ stage = "teams" /\ d[2] \in DOMAIN tpc
       \/ d[1] = "player" /\ stage = "players" /\ d[2] \in DOMAIN ppc
\* The run is over; one player task wrote both rows, one failed at the club
\* lookup and one timed out on its page, and no session is left.
C21_Witness ==
  /\ stage = "done"
  /\ drivers = {}
  /\ \E t, u, v \in DOMAIN ppc :
       /\ pres[t] = "true" /\ WroteData(t)
       /\ pres[u] = "false" /\ loc[u].looked
       /\ pres[v] = "false" /\ ~loc[v].looked

\* The tasks that own a session now.
Owning(pc) == {t \in DOMAIN pc : pc[t] \notin {"queued", "finished", "collected"}}

\* C22: in a run with --max-workers N >= 1, at most N sessions are live and
\* at most N tasks run; up to the return of get_squad_links the only session
\* is the coordinator's, and it is gone when a pool's tasks exist; and every
\* live session of a pool belongs to one task that is running, every running
\* task of a pool that started its browser to one session.
C22_SessionsBounded ==
  /\ max_workers >= 1 =>
       /\ Cardinality(drivers) <= max_workers
       /\ Cardinality(Owning(tpc)) <= max_workers
       /\ Cardinality(Owning(ppc)) <= max_workers
  /\ stage \in {"start", "league", "league_ret"} =>
       (drivers \subseteq {<<"main", 0>>} /\ tpc = <<>> /\ ppc = <<>>)
  /\ (tpc # <<>> \/ ppc # <<>>) => <<"main", 0>> \notin drivers
  /\ stage = "teams" => drivers = {<<"team", t>> : t \in Owning(tpc)}
  /\ stage = "players" => drivers = {<<"player", t>> : t \in Owning(ppc)}
\* Two workers: two player tasks run, each with its session, and a third
\* waits for a free worker.
C22_Witness ==
  /\ stage = "players"
  /\ max_workers = 2
  /\ Cardinality(drivers) = 2
  /\ \E t \in DOMAIN ppc : ppc[t] = "queued"

\* C23: under fair scheduling, every team pool gets every one of its futures
\* resolved and collected; from a running pool on, the run reaches its end
\* (the team pool has returned, and the player pool, if there is one, has
\* returned with every future resolved and collected), also when tasks
\* raise; and a task that has its result, whatever it is, does not hold
\* db_lock.
C23_PoolsComplete ==
  /\ (stage = "teams") ~> (stage = "teams" /\ AllCollected(tpc))
  /\ (stage \in {"teams", "players"}) ~>
       (/\ stage \in {"done", "no_players"}
        /\ \A t \in DOMAIN ppc : ppc[t] = "collected" /\ pres[t] # "none")
  /\ [](\A t \in DOMAIN ppc : pres[t] # "none" => t \notin db_lock)
\* A pool completed although one task's browser did not start, one failed
\* inside the lock at the club lookup, and a sibling then wrote its rows.
C23_Witness ==
  /\ stage = "done"
  /\ db_lock = {}
  /\ \E t, u, v \in DOMAIN ppc :
       /\ pres[t] = "raised"
       /\ pres[u] = "false" /\ loc[u].looked
       /\ pres[v] = "true" /\ WroteData(v)

\* C24 as stated: a (label, value) pair of a player page sets at most one
\* field: the Data row a task created holds no more fields than the page's
\* statistics block has pairs, and no label is the label of two field keys.
C24_OneFieldPerLabel ==
  \A t \in DOMAIN ppc :
    (Returned(t) /\ "data_new" \in loc[t].wrote) =>
      /\ \A j \in DataOf(loc[t].player[1]) :
           Cardinality(DOMAIN data[j].f) <= Len(PageOf(t).stats[1])
      /\ \A i \in DOMAIN PageOf(t).stats[1] :
           Cardinality(KeysOf(PageOf(t).stats[1][i].title)) <= 1

\* The table `new` is the table `old` with rows added at its end, if any.
Extends(new, old) == Len(new) >= Len(old) /\ SubSeq(new, 1, Len(old)) = old

\* C25: every step leaves the League and Club rows already there as they
\* are, in place; a step that adds a League or a Club row is a turn of
\* get_squad_links' loop, taken while no team task and no player task exists;
\* and a League row is added only under a name no League row has yet, the
\* title of the league page the loop is at.
C25_LeagueClubFrame ==
  /\ [][Extends(leagues', leagues) /\ Extends(clubs', clubs)]_vars
  /\ [][(leagues' # leagues \/ clubs' # clubs) =>
         (/\ stage = "league" /\ tpc = <<>> /\ ppc = <<>>
          /\ tpc' = <<>> /\ ppc' = <<>>)]_vars
  /\ [][\A i \in (DOMAIN leagues') \ (DOMAIN leagues) :
          /\ \A j \in DOMAIN leagues' : leagues'[j].name = leagues'[i].name => j = i
          /\ leagues'[i].name = LeaguePageOf(urls[url_idx]).title]_vars
\* In a second run the loop has met both leagues again and added no League
\* row, and a player task has written its Player row.
C25_Witness ==
  /\ run = 2
  /\ stage = "players"
  /\ Len(leagues) = 2 /\ Len(clubs) = 4
  /\ \E t \in DOMAIN ppc : WrotePlayer(t)

\* C26: a player task has the result True exactly when it has upserted its
\* Player row; a task whose result is False, or whose future raised, has
\* written nothing; a task upserts the Data row only after its own Player
\* row; every way out of the statistics step gives True; and every step
\* that changes a Player or Data row is the write of one task, which does
\* not fail in that step, while the step in which a task fails changes no
\* row.
C26_SuccessIffPlayerUpserted ==
  /\ [](\A t \in DOMAIN ppc :
          /\ pres[t] = "true" => WrotePlayer(t)
          /\ pres[t] \in {"false", "raised"} => loc[t].wrote = {}
          /\ (Returned(t) /\ WrotePlayer(t)) => pres[t] = "true"
          /\ WroteData(t) => (WrotePlayer(t) /\ loc[t].player # None)
          /\ ppc[t] \in {"stats", "cs2", "dwrite"} => WrotePlayer(t))
  /\ [][(players' # players \/ data' # data) =>
         \E t \in DOMAIN ppc :
           /\ loc'[t].wrote # loc[t].wrote
           /\ pres[t] = "none" /\ pres'[t] \in {"none", "true"}
           /\ \A u \in (DOMAIN ppc) \ {t} : loc'[u] = loc[u]]_vars
  /\ [][\A t \in DOMAIN ppc :
          (pres[t] = "none" /\ pres' # pres /\ pres'[t] \in {"false", "raised"})
            => (players' = players /\ data' = data)]_vars
  /\ [][\A t \in DOMAIN ppc :
          (ppc[t] \in {"stats", "cs2", "dwrite"} /\ ppc' # ppc /\ ppc'[t] = "quit")
            => pres'[t] = "true"]_vars
\* One pool: a task wrote both rows, one wrote its Player row and found no
\* statistics block, and one failed before the store and wrote nothing.
C26_Witness ==
  \E t, u, v \in DOMAIN ppc :
    /\ Returned(t) /\ pres[t] = "true" /\ WroteData(t)
    /\ Returned(u) /\ pres[u] = "true" /\ WrotePlayer(u) /\ ~WroteData(u)
    /\ Returned(v) /\ pres[v] = "false" /\ loc[v].wrote = {}

\* C27: a task is in db_lock only between the lookup and the write of one of
\* its two upserts: never before its page is read, never while it waits for
\* the statistics block, never once it has its result; only a player task
\* of the running pool is in it; a step that ends with a task's failure, or
\* with its way out of the statistics step, leaves the task outside the
\* lock; and a task that leaves an upsert leaves the lock in the same step.
C27_LockOnlyAroundStore ==
  /\ [](/\ db_lock \subseteq DOMAIN ppc
        /\ \A t \in DOMAIN ppc :
             /\ t \in db_lock => ppc[t] \in {"pwrite", "dwrite"}
             /\ ppc[t] \in {"queued", "cs1", "stats", "cs2", "quit", "finished", "collected"}
                  => t \notin db_lock
             /\ pres[t] # "none" => t \notin db_lock)
  /\ [][\A t \in DOMAIN ppc :
          (ppc[t] \in {"pwrite", "dwrite"} /\ ppc' # ppc /\ ppc'[t] # ppc[t])
            => (t \in db_lock /\ t \notin db_lock')]_vars
  /\ [][\A t \in DOMAIN ppc :
          (ppc[t] \in {"cs1", "cs2"} /\ ppc' # ppc /\ ppc'[t] = "quit")
            => (db_lock' = db_lock /\ t \notin db_lock')]_vars
\* A task waits for the statistics block outside the lock while a sibling
\* holds it, and a third has failed inside its Player upsert and is outside.
C27_Witness ==
  \E t, u, v \in DOMAIN ppc :
    /\ ppc[t] = "stats" /\ WrotePlayer(t)
    /\ ppc[u] = "pwrite" /\ db_lock = {u}
    /\ pres[v] = "false" /\ loc[v].looked

\* The leagues under which the store has a Club row of the club name that
\* the page of task t shows.
LeaguesOfClubName(t) ==
  {clubs[i].league : i \in {j \in DOMAIN clubs : clubs[j].name = ClubName(PageOf(t).club)}}

\* C28: a player task that has looked its club up while Club rows of that
\* name stood under more than one League has the result False, has written
\* nothing, and is not heading for a write; and the step of that lookup
\* leaves every Player row as it was.
C28_AmbiguousClubFails ==
  /\ [](\A t \in DOMAIN ppc :
          (loc[t].looked /\ Cardinality(LeaguesOfClubName(t)) > 1) =>
            /\ pres[t] = "false"
            /\ Returned(t)
            /\ loc[t].wrote = {}
            /\ loc[t].player = None)
  /\ [][\A t \in DOMAIN ppc :
          (ppc[t] = "cs1" /\ ppc' # ppc /\ ppc'[t] # "cs1"
           /\ Cardinality(LeaguesOfClubName(t)) > 1)
            => (players' = players /\ data' = data /\ ppc'[t] = "quit")]_vars
\* The page shows the club Nantes, which both leagues have; the task for
\* that player, who has a Player row from an earlier run, has failed, and the
\* row is still what that run wrote.
C28_Witness ==
  \E t \in DOMAIN ppc :
    /\ ClubName(PageOf(t).club) = <<"Nantes">>
    /\ Cardinality(LeaguesOfClubName(t)) = 2
    /\ loc[t].looked /\ pres[t] = "false"
    /\ \E i \in RowsOfId(FotmobId(LinkOf(t))) :
         players[i].club # None /\ clubs[players[i].club[1]].name = <<"Lyon">>

====
